---- MODULE Spec2Model ----
(***************************************************************************)
(* Model of hw1/cross_validation.py (the n-fold splitter and the           *)
(* cross-validation driver) and of hw2/binary_metrics.py (the confusion    *)
(* counts and the ratios derived from them).                               *)
(*                                                                         *)
(* Four specifications share the module:                                   *)
(*   Spec         calls of make_train_and_test_row_ids_for_n_fold_cv       *)
(*   SpecRepeat   a seeded call of the splitter, other calls, the same     *)
(*                seeded call again                                        *)
(*   SpecDriver   one run of train_models_and_calc_scores_for_n_fold_cv    *)
(*   SpecMetrics  calls of calc_TP_TN_FP_FN, calc_ACC, calc_TPR, calc_PPV  *)
(***************************************************************************)
EXTENDS Integers, Sequences, FiniteSets, TLC

\* ------------------------------------------------------------------ bounds
MaxN == 3
MaxFolds == 4
MaxSeed == 1
MaxLen == 2

\* ------------------------------------------------------------------ state
VARIABLES
    \* splitter: the caller's live generator object, and the last call
    gen,                 \* state of a RandomState object the caller may pass in
    args,                \* <<arguments of the last call>>, or <<>>
    outcome,             \* "none" | "return" | "raise"
    all_indices,         \* the shuffled order of the last call
    train_ids_per_fold,  \* returned list (a sequence of sequences)
    test_ids_per_fold,   \* returned list (a sequence of sequences)
    first,               \* history: the first integer-seed call and its result
    repeats,             \* history: later calls with the arguments of `first`
    between,             \* history: another call ran after `first`
    \* driver
    pc,                    \* "idle" | "loop" | "predict" | "store" | "done" | "raise"
    fold,                  \* the loop variable
    estimator,             \* <<rows the estimator was last fitted on>>, or <<>>
    preds,                 \* <<y_train_pred, y_test_pred>> of this fold, or <<>>
    events,                \* history: the calls made on the estimator, and the stores
    train_error_per_fold,
    test_error_per_fold,
    \* metrics
    fn, ytrue_N, yhat_N, result, counts, value, counter_calls

splitVars == <<gen, args, outcome, all_indices, train_ids_per_fold,
               test_ids_per_fold, first, repeats, between>>
driverVars == <<pc, fold, estimator, preds, events, train_error_per_fold,
                test_error_per_fold>>
metricVars == <<fn, ytrue_N, yhat_N, result, counts, value, counter_calls>>
vars == <<splitVars, driverVars, metricVars>>

None == "None"

\* ------------------------------------------------------------------ helpers
Range(s) == {s[i] : i \in 1..Len(s)}

Min(a, b) == IF a < b THEN a ELSE b

\* np.arange(n): the identity sequence 0, 1, ..., n-1
arange(n) == [i \in 1..n |-> i - 1]

\* a Python slice s[a:b] with 0 <= a, clamped to the length of s
Slice(s, a, b) == SubSeq(s, a + 1, Min(b, Len(s)))

\* the ascending sequence of the elements of a finite set of integers
RECURSIVE SortedSeq(_)
SortedSeq(S) ==
    IF S = {} THEN <<>>
    ELSE LET m == CHOOSE x \in S : \A y \in S : x <= y
         IN <<m>> \o SortedSeq(S \ {m})

\* np.setdiff1d(a, b): the sorted unique values of a that are not in b
setdiff1d(a, b) == SortedSeq(Range(a) \ Range(b))

\* ------------------------------------------------------------------ generator
\* The generator is abstracted to a linear congruential generator over
\* RNG_MOD states; only "a state, advanced by every draw" is relied upon.
RNG_MOD == 13
RNG_MUL == 6
RNG_INC == 7

rng_next(s) == (s * RNG_MUL + RNG_INC) % RNG_MOD

\* np.random.RandomState(seed): legacy seeding rejects a negative seed
seed_raises(seed) == seed < 0

\* the state of a fresh generator built from an integer seed
seeded_state(seed) == (seed * 5 + 3) % RNG_MOD

\* the generator a call draws from: the passed-in object (hasattr 'rand')
\* or a fresh RandomState(int(random_state))
\* (variant: every call draws from the caller's generator object)
SharedGeneratorState(rs, g) == g
GeneratorState(rs, g) ==
    IF rs.kind = "gen" THEN g ELSE seeded_state(rs.seed)

\* RandomState.shuffle: Fisher-Yates from the last position down, one draw
\* per position; returns the permuted sequence and the advanced state
RECURSIVE shuffle_from(_, _, _)
shuffle_from(x, i, s) ==
    IF i < 2 THEN [arr |-> x, st |-> s]
    ELSE LET s2 == rng_next(s)
             j  == (s2 % i) + 1
             y  == [x EXCEPT ![i] = x[j], ![j] = x[i]]
         IN shuffle_from(y, i - 1, s2)

shuffle(x, s) == shuffle_from(x, Len(x), s)

\* ------------------------------------------------------------------ splitter
\* n_examples // n_folds on Python ints raises ZeroDivisionError for 0
\* (variant: the division of numpy integers, which returns 0 for 0)
NumpyFloorDivRaises(n_folds) == FALSE
floordiv_raises(n_folds) == n_folds = 0

\* np.full(n_folds, ...) raises ValueError for a negative length
np_full_raises(n_folds) == n_folds < 0

\* fold_sizes = np.full(n_folds, N // n_folds); fold_sizes[:N % n_folds] += 1
\* (variant: the remainder is not handed out)
FoldSizesNoRemainder(n_examples, n_folds) ==
    [f \in 1..n_folds |-> n_examples \div n_folds]
fold_sizes(n_examples, n_folds) ==
    [f \in 1..n_folds |->
        (n_examples \div n_folds)
        + (IF f <= n_examples % n_folds THEN 1 ELSE 0)]

\* test_ids = all_indices[current:current + fold_size]
\* (variant: every slice starts at 0)
OverlappingTestIds(idx, current, fold_size) ==
    Slice(idx, 0, current + fold_size)
test_ids_of(idx, current, fold_size) ==
    Slice(idx, current, current + fold_size)

\* train_ids = np.setdiff1d(all_indices, test_ids)
\* (variant: the test ids are not removed)
AllRowsAsTrainIds(idx, test_ids) == SortedSeq(Range(idx))
train_ids_of(idx, test_ids) == setdiff1d(idx, test_ids)

\* the loop over fold_sizes: returns the two lists
RECURSIVE split_loop(_, _, _, _, _, _)
split_loop(idx, sizes, f, current, trains, tests) ==
    IF f > Len(sizes) THEN [train |-> trains, test |-> tests]
    ELSE LET te == test_ids_of(idx, current, sizes[f])
             tr == train_ids_of(idx, te)
         IN split_loop(idx, sizes, f + 1, current + sizes[f],
                       Append(trains, tr), Append(tests, te))

\* make_train_and_test_row_ids_for_n_fold_cv as a function of its arguments
\* and of the state g of the caller's generator object
make_train_and_test_row_ids_for_n_fold_cv(n_examples, n_folds, rs, g) ==
    IF rs.kind = "seed" /\ seed_raises(rs.seed)
    THEN [outcome |-> "raise", gen |-> g, idx |-> <<>>,
          train |-> <<>>, test |-> <<>>]
    ELSE LET sh == shuffle(arange(n_examples), GeneratorState(rs, g))
             g2 == IF rs.kind = "gen" THEN sh.st ELSE g
         IN IF floordiv_raises(n_folds) \/ np_full_raises(n_folds)
            THEN [outcome |-> "raise", gen |-> g2, idx |-> sh.arr,
                  train |-> <<>>, test |-> <<>>]
            ELSE LET r == split_loop(sh.arr, fold_sizes(n_examples, n_folds),
                                     1, 0, <<>>, <<>>)
                 IN [outcome |-> "return", gen |-> g2, idx |-> sh.arr,
                     train |-> r.train, test |-> r.test]

\* the values random_state takes in the model
RandomStateArgs ==
    {[kind |-> "gen", seed |-> 0]}
    \cup {[kind |-> "seed", seed |-> s] : s \in -1..MaxSeed}

SplitInitVals ==
    /\ args = <<>>
    /\ outcome = "none"
    /\ all_indices = <<>>
    /\ train_ids_per_fold = <<>>
    /\ test_ids_per_fold = <<>>
    /\ first = <<>>
    /\ repeats = 0
    /\ between = FALSE

DriverIdle ==
    /\ pc = "idle"
    /\ fold = 0
    /\ preds = <<>>
    /\ events = <<>>
    /\ train_error_per_fold = <<>>
    /\ test_error_per_fold = <<>>

MetricsIdle ==
    /\ fn = None
    /\ ytrue_N = <<>>
    /\ yhat_N = <<>>
    /\ result = "none"
    /\ counts = <<>>
    /\ value = <<>>
    /\ counter_calls = 0

Init ==
    /\ gen \in 0..(RNG_MOD - 1)
    /\ SplitInitVals
    /\ DriverIdle
    /\ estimator = <<>>
    /\ MetricsIdle

\* one call of the splitter: the caller's generator object and the
\* returned lists
CallSplit(n_examples, n_folds, rs) ==
    LET r == make_train_and_test_row_ids_for_n_fold_cv(
                 n_examples, n_folds, rs, gen)
    IN /\ gen' = r.gen
       /\ args' = <<[n_examples |-> n_examples, n_folds |-> n_folds,
                     rs |-> rs]>>
       /\ outcome' = r.outcome
       /\ all_indices' = r.idx
       /\ train_ids_per_fold' = r.train
       /\ test_ids_per_fold' = r.test

SplitWithSeed ==
    /\ \E n \in 0..MaxN, k \in -1..MaxFolds, s \in -1..MaxSeed :
           CallSplit(n, k, [kind |-> "seed", seed |-> s])
    /\ UNCHANGED <<first, repeats, between, driverVars, metricVars>>

SplitWithGenerator ==
    /\ \E n \in 0..MaxN, k \in -1..MaxFolds :
           CallSplit(n, k, [kind |-> "gen", seed |-> 0])
    /\ UNCHANGED <<first, repeats, between, driverVars, metricVars>>

Next == SplitWithSeed \/ SplitWithGenerator

Spec == Init /\ [][Next]_vars

\* ------------------------------------------------------------------ repeated calls
\* A caller that calls the splitter with an integer seed, then makes other
\* calls (with its generator object on any number of examples, or with
\* other seeds), then repeats the first call.
LastResult ==
    [outcome |-> outcome, train |-> train_ids_per_fold,
     test |-> test_ids_per_fold]

FirstSeedCall ==
    /\ first = <<>>
    /\ \E n \in 0..MaxN, k \in -1..MaxFolds, s \in -1..MaxSeed :
           CallSplit(n, k, [kind |-> "seed", seed |-> s])
    /\ first' = <<[args |-> args'[1], res |-> LastResult']>>
    /\ UNCHANGED <<repeats, between, driverVars, metricVars>>

InterveningGeneratorCall ==
    /\ first # <<>>
    /\ \E n \in 0..MaxN :
           CallSplit(n, first[1].args.n_folds, [kind |-> "gen", seed |-> 0])
    /\ between' = TRUE
    /\ UNCHANGED <<first, repeats, driverVars, metricVars>>

InterveningSeedCall ==
    /\ first # <<>>
    /\ \E s \in (-1..MaxSeed) \ {first[1].args.rs.seed} :
           CallSplit(first[1].args.n_examples, first[1].args.n_folds,
                     [kind |-> "seed", seed |-> s])
    /\ between' = TRUE
    /\ UNCHANGED <<first, repeats, driverVars, metricVars>>

RepeatedSeedCall ==
    /\ first # <<>>
    /\ CallSplit(first[1].args.n_examples, first[1].args.n_folds,
                 first[1].args.rs)
    /\ repeats' = IF repeats < 2 THEN repeats + 1 ELSE repeats
    /\ UNCHANGED <<first, between, driverVars, metricVars>>

NextRepeat ==
    \/ FirstSeedCall
    \/ InterveningGeneratorCall
    \/ InterveningSeedCall
    \/ RepeatedSeedCall

SpecRepeat == Init /\ [][NextRepeat]_vars

\* ------------------------------------------------------------------ driver
\* np.zeros(n_folds, dtype=np.float32): n_folds entries, none stored yet
ZeroError == [stored |-> FALSE, rows |-> <<>>, model |-> <<>>]
np_zeros(n) == [f \in 1..n |-> ZeroError]

\* np.zeros(n_folds) raises ValueError for a negative length
np_zeros_raises(n_folds) == n_folds < 0

\* estimator.fit(x_train, y_train): the estimator is refitted from scratch
\* on the rows it is given
estimator_fit(est, rows) == <<rows>>

\* estimator.predict(x): predictions for the rows x, made by the model as
\* it was last fitted
estimator_predict(est, rows) == [rows |-> rows, model |-> est[1]]

\* calc_root_mean_squared_error(y, y_pred): the error of the predictions
\* y_pred against the responses of the rows y
calc_root_mean_squared_error(rows, pred) ==
    [stored |-> TRUE, rows |-> pred.rows, model |-> pred.model]

\* train_ids = train_ids_per_fold[fold] ; test_ids = test_ids_per_fold[fold]
\* (variant: the fold's test rows are fitted on as well)
TrainAndTestRows(f) ==
    SortedSeq(Range(train_ids_per_fold[f + 1])
              \cup Range(test_ids_per_fold[f + 1]))
train_ids_at(f) == train_ids_per_fold[f + 1]
test_ids_at(f) == test_ids_per_fold[f + 1]

\* the caller's estimator is new, or was fitted before on all the rows
InitDriver ==
    /\ gen \in 0..(RNG_MOD - 1)
    /\ SplitInitVals
    /\ DriverIdle
    /\ estimator \in {<<>>, <<arange(MaxN)>>}
    /\ MetricsIdle

\* lines 58-63: allocate the two arrays, then call the splitter
DriverStart ==
    /\ pc = "idle"
    /\ \E n \in 0..MaxN, k \in -1..MaxFolds, rs \in RandomStateArgs :
        IF np_zeros_raises(k)
        THEN /\ pc' = "raise"
             /\ args' = <<[n_examples |-> n, n_folds |-> k, rs |-> rs]>>
             /\ UNCHANGED <<gen, outcome, all_indices, train_ids_per_fold,
                            test_ids_per_fold, train_error_per_fold,
                            test_error_per_fold>>
        ELSE /\ CallSplit(n, k, rs)
             /\ pc' = IF outcome' = "raise" THEN "raise" ELSE "loop"
             /\ train_error_per_fold' =
                    IF outcome' = "raise" THEN <<>> ELSE np_zeros(k)
             /\ test_error_per_fold' =
                    IF outcome' = "raise" THEN <<>> ELSE np_zeros(k)
    /\ fold' = 0
    /\ UNCHANGED <<estimator, preds, events, first, repeats, between,
                   metricVars>>

\* lines 67-76: the next fold of range(n_folds); fit on its train rows
DriverFit ==
    /\ pc = "loop"
    /\ fold < args[1].n_folds
    /\ estimator' = estimator_fit(estimator, train_ids_at(fold))
    /\ events' = Append(events, [op |-> "fit", fold |-> fold,
                                 rows |-> train_ids_at(fold)])
    /\ pc' = "predict"
    /\ UNCHANGED <<fold, preds, train_error_per_fold, test_error_per_fold,
                   splitVars, metricVars>>

\* lines 79-80: predict on the train rows, then on the test rows
DriverPredict ==
    /\ pc = "predict"
    /\ preds' = <<estimator_predict(estimator, train_ids_at(fold)),
                  estimator_predict(estimator, test_ids_at(fold))>>
    /\ events' = events
                 \o <<[op |-> "predict", fold |-> fold,
                       rows |-> train_ids_at(fold)],
                      [op |-> "predict", fold |-> fold,
                       rows |-> test_ids_at(fold)]>>
    /\ pc' = "store"
    /\ UNCHANGED <<fold, estimator, train_error_per_fold,
                   test_error_per_fold, splitVars, metricVars>>

\* lines 83-84: store the two errors at position fold; next iteration
DriverStore ==
    /\ pc = "store"
    /\ train_error_per_fold' =
           [train_error_per_fold EXCEPT ![fold + 1] =
               calc_root_mean_squared_error(train_ids_at(fold), preds[1])]
    /\ test_error_per_fold' =
           [test_error_per_fold EXCEPT ![fold + 1] =
               calc_root_mean_squared_error(test_ids_at(fold), preds[2])]
    /\ events' = Append(events, [op |-> "store", fold |-> fold,
                                 rows |-> <<>>])
    /\ fold' = fold + 1
    /\ preds' = <<>>
    /\ pc' = "loop"
    /\ UNCHANGED <<estimator, splitVars, metricVars>>

\* line 86: range(n_folds) is exhausted
DriverReturn ==
    /\ pc = "loop"
    /\ fold >= args[1].n_folds
    /\ pc' = "done"
    /\ UNCHANGED <<fold, estimator, preds, events, train_error_per_fold,
                   test_error_per_fold, splitVars, metricVars>>

NextDriver ==
    \/ DriverStart
    \/ DriverFit
    \/ DriverPredict
    \/ DriverStore
    \/ DriverReturn

SpecDriver == InitDriver /\ [][NextDriver]_vars

\* ------------------------------------------------------------------ metrics
\* A label is held as twice its value, so that 0.5 and 1.5 can be passed:
\* 0 is 0.0, 1 is 0.5, 2 is 1.0, 3 is 1.5, 4 is 2.0, -1 is -0.5, ...
RawValues == {-4, -2, -1, 0, 2, 3, 4}

RECURSIVE SeqsUpTo(_, _)
SeqsUpTo(S, n) ==
    IF n = 0 THEN {<<>>}
    ELSE LET shorter == SeqsUpTo(S, n - 1)
         IN shorter \cup {Append(q, x) : q \in {r \in shorter : Len(r) = n - 1},
                                         x \in S}

LabelSeqs == SeqsUpTo(RawValues, MaxLen)

\* np.asarray(y, dtype=np.int32) of floats: every value is truncated
\* towards zero
TruncToInt(h) == IF h >= 0 THEN h \div 2 ELSE -((-h) \div 2)
astype_int32(y) == [i \in 1..Len(y) |-> TruncToInt(y[i])]

\* a & b on two's-complement integers
RECURSIVE bitand(_, _)
bitand(a, b) ==
    IF a = 0 \/ b = 0 THEN 0
    ELSE IF a = -1 THEN b
    ELSE IF b = -1 THEN a
    ELSE (a % 2) * (b % 2) + 2 * bitand(a \div 2, b \div 2)

\* assert ytrue_N.shape == yhat_N.shape
\* (variant: the shapes are not compared)
ShapesNeverDiffer(a, b) == FALSE
shapes_differ(a, b) == Len(a) # Len(b)

\* numpy broadcasting of two 1-D arrays: equal lengths, or one of length 1
broadcast_raises(a, b) == Len(a) # Len(b) /\ Len(a) # 1 /\ Len(b) # 1
broadcast_len(a, b) == IF Len(a) = 1 THEN Len(b) ELSE Len(a)
at(a, i) == IF Len(a) = 1 THEN a[1] ELSE a[i]

\* a & b elementwise
and_arrays(a, b) ==
    [i \in 1..broadcast_len(a, b) |-> bitand(at(a, i), at(b, i))]

\* 1 - a elementwise
\* (variant: ~a in place of 1 - a)
BitwiseNot(a) == [i \in 1..Len(a) |-> -1 - a[i]]
one_minus(a) == [i \in 1..Len(a) |-> 1 - a[i]]

RECURSIVE np_sum(_)
np_sum(a) == IF a = <<>> THEN 0 ELSE Head(a) + np_sum(Tail(a))

\* calc_TP_TN_FP_FN: the outcome and the tuple (TP, TN, FP, FN)
calc_TP_TN_FP_FN(ytrue, yhat) ==
    LET yt == astype_int32(ytrue)
        yh == astype_int32(yhat)
    IN IF shapes_differ(yt, yh)
       THEN [result |-> "AssertionError", counts |-> <<>>]
       ELSE IF broadcast_raises(yt, yh)
       THEN [result |-> "ValueError", counts |-> <<>>]
       ELSE [result |-> "return",
             counts |-> <<np_sum(and_arrays(yt, yh)),
                          np_sum(and_arrays(one_minus(yt), one_minus(yh))),
                          np_sum(and_arrays(one_minus(yt), yh)),
                          np_sum(and_arrays(yt, one_minus(yh)))>>]

\* the small value added to every denominator, in units of 1e-10
epsilon == 1

\* num / (den + eps * 1e-10) on Python numbers: ZeroDivisionError when the
\* denominator is exactly zero, else the quotient, kept as its two parts
divide(num, den, eps) ==
    IF den = 0 /\ eps = 0
    THEN [result |-> "ZeroDivisionError", value |-> <<>>]
    ELSE [result |-> "return",
          value |-> <<[num |-> num, den |-> den, eps |-> eps]>>]

\* a returned quotient is 0 exactly when its numerator is
IsZero(v) == v # <<>> /\ v[1].num = 0

\* a ratio function: the counts first, with any error passed on, then
\* num / (den + 1e-10) of the numerator and denominator it picks
ratio(c, num, den) ==
    IF c.result # "return"
    THEN [result |-> c.result, counts |-> <<>>, value |-> <<>>]
    ELSE LET q == divide(num, den, epsilon)
         IN [result |-> q.result, counts |-> c.counts, value |-> q.value]

\* (TP + TN) / (TP + TN + FP + FN + 1e-10)
calc_ACC(ytrue, yhat) ==
    LET c == calc_TP_TN_FP_FN(ytrue, yhat)
    IN ratio(c, c.counts[1] + c.counts[2],
             c.counts[1] + c.counts[2] + c.counts[3] + c.counts[4])

\* TP / (TP + FN + 1e-10)
calc_TPR(ytrue, yhat) ==
    LET c == calc_TP_TN_FP_FN(ytrue, yhat)
    IN ratio(c, c.counts[1], c.counts[1] + c.counts[4])

\* TP / (TP + FP + 1e-10)
calc_PPV(ytrue, yhat) ==
    LET c == calc_TP_TN_FP_FN(ytrue, yhat)
    IN ratio(c, c.counts[1], c.counts[1] + c.counts[3])

\* the two label sequences of a call are drawn at the start
InitMetrics ==
    /\ gen = 0
    /\ SplitInitVals
    /\ DriverIdle
    /\ estimator = <<>>
    /\ fn = None
    /\ ytrue_N \in LabelSeqs
    /\ yhat_N \in LabelSeqs
    /\ result = "none"
    /\ counts = <<>>
    /\ value = <<>>
    /\ counter_calls = 0

Store(name, r) ==
    /\ fn' = name
    /\ result' = r.result
    /\ counts' = r.counts
    /\ counter_calls' = 1
    /\ UNCHANGED <<ytrue_N, yhat_N, splitVars, driverVars>>

Call_calc_TP_TN_FP_FN ==
    /\ fn = None
    /\ Store("calc_TP_TN_FP_FN", calc_TP_TN_FP_FN(ytrue_N, yhat_N))
    /\ value' = <<>>

Call_calc_ACC ==
    /\ fn = None
    /\ Store("calc_ACC", calc_ACC(ytrue_N, yhat_N))
    /\ value' = calc_ACC(ytrue_N, yhat_N).value

Call_calc_TPR ==
    /\ fn = None
    /\ Store("calc_TPR", calc_TPR(ytrue_N, yhat_N))
    /\ value' = calc_TPR(ytrue_N, yhat_N).value

Call_calc_PPV ==
    /\ fn = None
    /\ Store("calc_PPV", calc_PPV(ytrue_N, yhat_N))
    /\ value' = calc_PPV(ytrue_N, yhat_N).value

NextMetrics ==
    \/ Call_calc_TP_TN_FP_FN
    \/ Call_calc_ACC
    \/ Call_calc_TPR
    \/ Call_calc_PPV

SpecMetrics == InitMetrics /\ [][NextMetrics]_vars

\* ------------------------------------------------------------------ splitter claims
Returned == args # <<>> /\ outcome = "return"

N_of == args[1].n_examples
K_of == args[1].n_folds

AllIds == 0..(N_of - 1)

\* how many (fold, position) pairs of the test lists hold index i
TestOccurrences(i) ==
    Cardinality({p \in (1..Len(test_ids_per_fold)) \X (1..MaxN + 1) :
                    /\ p[2] <= Len(test_ids_per_fold[p[1]])
                    /\ test_ids_per_fold[p[1]][p[2]] = i})

Max(a, b) == IF a > b THEN a ELSE b

\* C1: for 1 <= n_folds <= max(N, 1), the test-id sets of the folds are
\* pairwise disjoint, their union is {0..N-1}, and every index is in the
\* test list of exactly one fold, exactly once.
C1_TestFoldsPartition ==
    (Returned /\ 1 <= K_of /\ K_of <= Max(N_of, 1)) =>
        /\ \A f, h \in 1..Len(test_ids_per_fold) :
               f # h => Range(test_ids_per_fold[f])
                          \cap Range(test_ids_per_fold[h]) = {}
        /\ UNION {Range(test_ids_per_fold[f]) :
                     f \in 1..Len(test_ids_per_fold)} = AllIds
        /\ \A i \in AllIds : TestOccurrences(i) = 1

\* as many folds as examples, after a shuffle that moved every index
C1_Witness ==
    /\ Returned
    /\ N_of = 3 /\ K_of = 3
    /\ \A i \in 1..3 : all_indices[i] # i - 1
    /\ \A f \in 1..3 : test_ids_per_fold[f] = <<all_indices[f]>>

\* C2: for every n_folds >= 1 and every fold f, train_ids(f) and
\* test_ids(f) are disjoint, together cover {0..N-1}, train_ids(f) has no
\* duplicates, and the two sizes add up to N.
C2_TrainIsComplement ==
    (Returned /\ K_of >= 1) =>
        /\ Len(train_ids_per_fold) = Len(test_ids_per_fold)
        /\ \A f \in 1..Len(test_ids_per_fold) :
            LET tr == train_ids_per_fold[f]
                te == test_ids_per_fold[f]
            IN /\ Range(tr) \cap Range(te) = {}
               /\ Range(tr) \cup Range(te) = AllIds
               /\ Cardinality(Range(tr)) = Len(tr)
               /\ Len(tr) + Len(te) = N_of

\* more folds than examples: a fold with an empty test set and all rows
\* in its train set
C2_Witness ==
    /\ Returned
    /\ N_of = 3 /\ K_of = 4
    /\ test_ids_per_fold[4] = <<>>
    /\ Len(train_ids_per_fold[4]) = 3
    /\ Len(train_ids_per_fold[1]) = 2

RECURSIVE Concat(_)
Concat(ss) == IF ss = <<>> THEN <<>> ELSE Head(ss) \o Concat(Tail(ss))

RECURSIVE SumLens(_)
SumLens(ss) == IF ss = <<>> THEN 0 ELSE Len(Head(ss)) + SumLens(Tail(ss))

\* C3: for n_folds >= 1 exactly n_folds folds are returned; test fold f
\* (counted from 0) is the f-th contiguous block of the shuffled order and
\* has N // n_folds + 1 ids if f < N % n_folds, else N // n_folds; the sizes
\* sum to N and differ by at most 1.
C3_FoldSizes ==
    (Returned /\ K_of >= 1) =>
        /\ Len(test_ids_per_fold) = K_of
        /\ Len(train_ids_per_fold) = K_of
        /\ Concat(test_ids_per_fold) = all_indices
        /\ \A f \in 0..(K_of - 1) :
               Len(test_ids_per_fold[f + 1]) =
                   IF f < N_of % K_of THEN (N_of \div K_of) + 1
                   ELSE N_of \div K_of
        /\ SumLens(test_ids_per_fold) = N_of
        /\ \A f, h \in 1..K_of :
               Len(test_ids_per_fold[f]) - Len(test_ids_per_fold[h]) <= 1

C3_Witness ==
    /\ Returned
    /\ N_of = 3 /\ K_of = 2
    /\ Len(test_ids_per_fold[1]) = 2
    /\ Len(test_ids_per_fold[2]) = 1
    /\ all_indices # arange(3)

\* C7: for every n_examples >= 0 and every n_folds <= 0 the call raises
\* and returns no fold lists.
C7_NonPositiveFoldsRaise ==
    (args # <<>> /\ K_of <= 0) =>
        /\ outcome = "raise"
        /\ train_ids_per_fold = <<>>
        /\ test_ids_per_fold = <<>>

C7_Witness ==
    /\ args # <<>>
    /\ K_of = 0 /\ N_of = 3
    /\ args[1].rs.kind = "seed" /\ args[1].rs.seed = 0
    /\ outcome = "raise"

C7_WitnessNegative ==
    /\ args # <<>>
    /\ K_of = -1 /\ N_of = 3
    /\ args[1].rs.kind = "gen"
    /\ outcome = "raise"

\* C4: a call with an integer seed returns the same train and test lists,
\* fold by fold (or fails in the same way), as the first call with the same
\* seed, n_examples and n_folds, whatever calls ran in between.
C4_SameSeedSameFolds ==
    (first # <<>> /\ args = <<first[1].args>>) =>
        LastResult = first[1].res

C4_Witness ==
    /\ first # <<>>
    /\ args = <<first[1].args>>
    /\ repeats >= 1
    /\ between
    /\ outcome = "return"
    /\ N_of = 3 /\ K_of = 2
    /\ all_indices # arange(3)
    /\ LastResult = first[1].res

\* ------------------------------------------------------------------ driver claims
DriverRunning == pc \in {"loop", "predict", "store", "done"}

\* the event the driver has to make at position i of its history
ExpectedEvent(i) ==
    LET f == (i - 1) \div 4
        j == (i - 1) % 4
    IN CASE j = 0 -> [op |-> "fit", fold |-> f,
                      rows |-> train_ids_per_fold[f + 1]]
         [] j = 1 -> [op |-> "predict", fold |-> f,
                      rows |-> train_ids_per_fold[f + 1]]
         [] j = 2 -> [op |-> "predict", fold |-> f,
                      rows |-> test_ids_per_fold[f + 1]]
         [] OTHER -> [op |-> "store", fold |-> f, rows |-> <<>>]

FitCount == Cardinality({i \in 1..Len(events) : events[i].op = "fit"})

\* C10: folds are processed in order 0..n_folds-1; for fold f the
\* estimator is fitted once, on exactly train_ids(f), then predicts on the
\* train rows and on the test rows of fold f, and the two errors are stored
\* at position f before the next fit; on return fit was called n_folds
\* times, the model behind test error f was fitted on no row of
\* test_ids(f), and both arrays have length n_folds.
C10_DriverFoldOrder ==
    DriverRunning =>
        /\ \A i \in 1..Len(events) : events[i] = ExpectedEvent(i)
        /\ Len(events) = 4 * fold + (CASE pc = "predict" -> 1
                                       [] pc = "store" -> 3
                                       [] OTHER -> 0)
        /\ Len(train_error_per_fold) = K_of
        /\ Len(test_error_per_fold) = K_of
        /\ \A f \in 0..(K_of - 1) :
            /\ train_error_per_fold[f + 1].stored = (f < fold)
            /\ test_error_per_fold[f + 1].stored = (f < fold)
            /\ (f < fold) =>
                /\ train_error_per_fold[f + 1].rows = train_ids_per_fold[f + 1]
                /\ train_error_per_fold[f + 1].model = train_ids_per_fold[f + 1]
                /\ test_error_per_fold[f + 1].rows = test_ids_per_fold[f + 1]
                /\ test_error_per_fold[f + 1].model = train_ids_per_fold[f + 1]
                /\ Range(test_error_per_fold[f + 1].model)
                     \cap Range(test_ids_per_fold[f + 1]) = {}
        /\ (pc = "done") => (fold = K_of /\ FitCount = K_of)

\* a run over 3 folds of 3 rows has returned, with an estimator that had
\* been fitted on all the rows before the run
C10_Witness ==
    /\ pc = "done"
    /\ K_of = 3 /\ N_of = 3
    /\ FitCount = 3
    /\ Len(events) = 12
    /\ estimator = <<train_ids_per_fold[3]>>
    /\ test_error_per_fold[1].stored
    /\ test_error_per_fold[1].model # test_error_per_fold[3].model

\* ------------------------------------------------------------------ metrics claims
TP == counts[1]
TN == counts[2]
FP == counts[3]
FN == counts[4]

EqualLengths == Len(ytrue_N) = Len(yhat_N)

\* the labels as passed are exactly 0.0 or 1.0
BinaryInputs ==
    /\ \A i \in 1..Len(ytrue_N) : ytrue_N[i] \in {0, 2}
    /\ \A i \in 1..Len(yhat_N) : yhat_N[i] \in {0, 2}

\* the number of positions with the given true and predicted label
Positions(t, p) ==
    Cardinality({i \in 1..Len(ytrue_N) : ytrue_N[i] = 2 * t /\ yhat_N[i] = 2 * p})

\* C5: for equal-length sequences of values in {0, 1}, calc_TP_TN_FP_FN
\* returns TP = #(true 1, pred 1), TN = #(0, 0), FP = #(true 0, pred 1),
\* FN = #(true 1, pred 0); the counts are non-negative and sum to the length.
C5_CountsAreConfusionCounts ==
    (fn = "calc_TP_TN_FP_FN" /\ EqualLengths /\ BinaryInputs) =>
        /\ result = "return"
        /\ counts = <<Positions(1, 1), Positions(0, 0),
                      Positions(0, 1), Positions(1, 0)>>
        /\ \A j \in 1..4 : counts[j] >= 0
        /\ TP + TN + FP + FN = Len(ytrue_N)

C5_Witness ==
    /\ fn = "calc_TP_TN_FP_FN"
    /\ ytrue_N = <<0, 2>>
    /\ yhat_N = <<2, 2>>
    /\ counts = <<1, 0, 1, 0>>

\* C6: for empty inputs calc_TPR and calc_PPV return exactly 0 without a
\* division error; whenever TP + FN = 0 calc_TPR returns 0 and whenever
\* TP + FP = 0 calc_PPV returns 0.
C6_ZeroDenominatorGivesZero ==
    /\ (fn \in {"calc_TPR", "calc_PPV"} /\ ytrue_N = <<>> /\ yhat_N = <<>>)
           => (result = "return" /\ IsZero(value))
    /\ (fn = "calc_TPR" /\ counts # <<>> /\ TP + FN = 0)
           => (result = "return" /\ IsZero(value))
    /\ (fn = "calc_PPV" /\ counts # <<>> /\ TP + FP = 0)
           => (result = "return" /\ IsZero(value))

\* the part of C6 that the code satisfies: the same statement for labels
\* that are exactly 0.0 or 1.0 (the empty sequences included)
C6_OnBinaryLabels ==
    BinaryInputs => C6_ZeroDenominatorGivesZero

\* C8: when the two lengths differ, calc_TP_TN_FP_FN fails before it
\* computes a count, and calc_ACC, calc_TPR and calc_PPV, which call it
\* once, fail in the same way and return no number.
C8_LengthMismatchFails ==
    (fn # None /\ ~EqualLengths) =>
        /\ result = "AssertionError"
        /\ counts = <<>>
        /\ value = <<>>
        /\ counter_calls = 1

\* lengths 1 and 2, which numpy would broadcast
C8_Witness ==
    /\ fn = "calc_TPR"
    /\ Len(ytrue_N) = 1 /\ Len(yhat_N) = 2
    /\ result = "AssertionError"

\* some label is outside {0, 1} after the cast to integer
NonBinaryAfterCast ==
    \/ \E i \in 1..Len(ytrue_N) : astype_int32(ytrue_N)[i] \notin {0, 1}
    \/ \E i \in 1..Len(yhat_N) : astype_int32(yhat_N)[i] \notin {0, 1}

\* C9: for equal-length inputs with a value outside {0, 1} after the cast,
\* calc_TP_TN_FP_FN fails or coerces the value; it never returns a negative
\* count or counts whose sum differs from the length.
C9_NonBinaryNeverMiscounts ==
    (fn = "calc_TP_TN_FP_FN" /\ EqualLengths /\ NonBinaryAfterCast) =>
        \/ result # "return"
        \/ /\ \A j \in 1..4 : counts[j] >= 0
           /\ TP + TN + FP + FN = Len(ytrue_N)

====
